---- MODULE Spec2Model ----
(***************************************************************************)
(* Model of sway-display-switcher (src/src/main.rs).                       *)
(*                                                                         *)
(* A string is a sequence of one-character strings, a file is the sequence *)
(* of its bytes, and a run of main() is a walk of `pc` through the         *)
(* statements of main.  Indices keep Rust's 0-based values; a sequence is  *)
(* indexed with index + 1.                                                 *)
(***************************************************************************)
EXTENDS Integers, Sequences, FiniteSets, TLC

VARIABLES
    pc,                       \* position in main()
    exit_code,                \* process exit status, Running until exit
    io_error,                 \* the I/O failure that occurred, "none" if none
    old_content,              \* bytes of the config path when the run began
    fs_config,                \* bytes of ~/.config/sway/config
    temp_exists,              \* does config_temp exist
    fs_temp,                  \* bytes of config_temp
    lines,                    \* main: lines
    display_start,            \* main: display_start
    display_end,              \* main: display_end
    display_configs,          \* main: display_configs
    input,                    \* get_user_selection: last line read from stdin
    attempts,                 \* get_user_selection: invalid inputs so far
    selected_index,           \* main: selected_index
    updated_display_configs,  \* main: updated_display_configs
    new_display_section,      \* main: new_display_section
    new_lines,                \* main: new_lines
    writer,                   \* BufWriter: bytes buffered, not yet in the file
    written,                  \* number of lines the write loop has consumed
    reload_spawned,           \* swaymsg reload was spawned
    sway_read,                \* the reload has read the config path
    sway_config               \* bytes the reload read from the config path

vars == <<pc, exit_code, io_error, old_content, fs_config, temp_exists, fs_temp,
          lines, display_start, display_end, display_configs, input, attempts,
          selected_index, updated_display_configs, new_display_section,
          new_lines, writer, written, reload_spawned, sway_read, sway_config>>

(***************************************************************************)
(* Bounds of the model.                                                    *)
(***************************************************************************)
MaxSectionLines == 2      \* lines between the markers of a generated file
MaxAttempts == 1          \* invalid inputs before the prompt must be answered
MaxReadFaultLine == 1     \* only the first MaxReadFaultLine lines may fail to read
BufCap == 64              \* capacity of the BufWriter (8 KiB in std), scaled

None == -1                \* Option::None for an index
Running == -1             \* exit_code of a process that has not exited

(***************************************************************************)
(* String literals of the program.                                         *)
(***************************************************************************)
DisplayStartMarker ==
    <<"D","i","s","p","l","a","y"," ","S","t","a","r","t">>
DisplayEndMarker ==
    <<"D","i","s","p","l","a","y"," ","E","n","d">>
HeaderPrefix ==
    <<"#"," ","D","e","s","c","r","i","p","t","i","o","n"," ","="," ">>
StatusInfix ==
    <<","," ","S","t","a","t","u","s"," ","="," ">>
Enabled ==
    <<"E","n","a","b","l","e","d">>
Disabled ==
    <<"D","i","s","a","b","l","e","d">>
CommentPrefix ==
    <<"#"," ">>
Newline ==
    <<"\n">>
Quit ==
    <<"q">>

(***************************************************************************)
(* str primitives.                                                         *)
(***************************************************************************)
Whitespace == {" ", "\t", "\n", "\r"}

Digits == <<"0","1","2","3","4","5","6","7","8","9">>

\* char::to_ascii_lowercase, on the upper-case letters the model uses
ToAsciiLower(c) ==
    CASE c = "A" -> "a" [] c = "B" -> "b" [] c = "D" -> "d" [] c = "E" -> "e"
      [] c = "N" -> "n" [] c = "L" -> "l" [] c = "Q" -> "q" [] c = "S" -> "s"
      [] c = "X" -> "x" [] c = "Y" -> "y" [] OTHER -> c

\* a case-sensitive comparison
EqExactCase(s, t) == s = t

\* str::eq_ignore_ascii_case
EqIgnoreAsciiCase(s, t) ==
    /\ Len(s) = Len(t)
    /\ \A k \in 1..Len(s) : ToAsciiLower(s[k]) = ToAsciiLower(t[k])

\* pat occurs in s at (1-based) position p
IsPrefixAt(s, pat, p) ==
    /\ p >= 1
    /\ p + Len(pat) - 1 <= Len(s)
    /\ \A k \in 1..Len(pat) : s[p + k - 1] = pat[k]

\* str::starts_with
StartsWith(s, pat) == IsPrefixAt(s, pat, 1)

\* str::contains
Contains(s, pat) == \E p \in 1..(Len(s) - Len(pat) + 1) : IsPrefixAt(s, pat, p)

\* number of leading characters of s that are in C
LeadingCount(s, C) ==
    CHOOSE k \in 0..Len(s) :
        /\ \A j \in 1..k : s[j] \in C
        /\ k = Len(s) \/ s[k + 1] \notin C

\* number of trailing characters of s that are in C
TrailingCount(s, C) ==
    CHOOSE k \in 0..Len(s) :
        /\ \A j \in (Len(s) - k + 1)..Len(s) : s[j] \in C
        /\ k = Len(s) \/ s[Len(s) - k] \notin C

\* str::trim_start_matches(c)
TrimStartMatches(s, c) == SubSeq(s, LeadingCount(s, {c}) + 1, Len(s))

\* str::trim_start
TrimStart(s) == SubSeq(s, LeadingCount(s, Whitespace) + 1, Len(s))

\* str::trim_end
TrimEnd(s) == SubSeq(s, 1, Len(s) - TrailingCount(s, Whitespace))

\* str::trim
Trim(s) == TrimEnd(TrimStart(s))

\* (1-based) index of the first c in s at or after from, Len(s) + 1 if none
FirstAtOrAfter(s, c, from) ==
    IF \E i \in from..Len(s) : s[i] = c
    THEN CHOOSE i \in from..Len(s) :
             /\ s[i] = c
             /\ \A j \in from..(i - 1) : s[j] # c
    ELSE Len(s) + 1

\* str::parse::<usize>: an optional '+', then one or more decimal digits
DigitValue(c) == (CHOOSE d \in 1..10 : Digits[d] = c) - 1

IsDigit(c) == \E d \in 1..10 : Digits[d] = c

RECURSIVE DecimalValue(_)
DecimalValue(s) ==
    IF s = <<>> THEN 0
    ELSE 10 * DecimalValue(SubSeq(s, 1, Len(s) - 1)) + DigitValue(s[Len(s)])

ParseUsize(s) ==
    LET body == IF s # <<>> /\ s[1] = "+" THEN Tail(s) ELSE s
    IN  IF body # <<>> /\ \A k \in 1..Len(body) : IsDigit(body[k])
        THEN DecimalValue(body)
        ELSE None

(***************************************************************************)
(* Regex "# Description = ([^,]+), Status = ([^,]+)", unanchored.          *)
(* [^,]+ is greedy and cannot cross a comma, and the literal after the     *)
(* first group begins with a comma, so each group ends at the first comma  *)
(* (or the end of the line) after its start.                               *)
(***************************************************************************)
MatchesAt(line, p) ==
    LET a == p + Len(HeaderPrefix)
        q == FirstAtOrAfter(line, ",", a)
        b == q + Len(StatusInfix)
    IN  /\ IsPrefixAt(line, HeaderPrefix, p)
        /\ q > a
        /\ IsPrefixAt(line, StatusInfix, q)
        /\ b <= Len(line)
        /\ line[b] # ","

IsMatch(line) == \E p \in 1..Len(line) : MatchesAt(line, p)

\* captures[1] and captures[2] of the leftmost match
Captures(line) ==
    LET p == CHOOSE x \in 1..Len(line) :
                 /\ MatchesAt(line, x)
                 /\ \A y \in 1..(x - 1) : ~MatchesAt(line, y)
        a == p + Len(HeaderPrefix)
        q == FirstAtOrAfter(line, ",", a)
        b == q + Len(StatusInfix)
        r == FirstAtOrAfter(line, ",", b)
    IN  <<SubSeq(line, a, q - 1), SubSeq(line, b, r - 1)>>

(***************************************************************************)
(* Files as bytes.                                                         *)
(***************************************************************************)
\* the bytes of a text file whose lines are ls, each ended by a newline
RECURSIVE FileOf(_)
FileOf(ls) ==
    IF ls = <<>> THEN <<>>
    ELSE Head(ls) \o Newline \o FileOf(Tail(ls))

\* BufRead::lines: split at "\n", drop a "\r" before it; a last line without
\* a newline is a line, a trailing newline starts no further line
StripCR(s) ==
    IF s # <<>> /\ s[Len(s)] = "\r" THEN SubSeq(s, 1, Len(s) - 1) ELSE s

RECURSIVE ReadLinesFrom(_, _)
ReadLinesFrom(content, from) ==
    IF from > Len(content) THEN <<>>
    ELSE LET nl == FirstAtOrAfter(content, "\n", from)
         IN  <<StripCR(SubSeq(content, from, nl - 1))>>
                 \o ReadLinesFrom(content, nl + 1)

ReadLines(content) == ReadLinesFrom(content, 1)

\* filter_map(Result::ok): the line whose read failed (1-based, 0: none) is
\* dropped and the rest is collected
DropFailed(ls, bad) ==
    [k \in 1..(Len(ls) - (IF bad = 0 THEN 0 ELSE 1)) |->
        IF bad = 0 \/ k < bad THEN ls[k] ELSE ls[k + 1]]

\* BufWriter::write_all on a writer w = [buf, out]: buf is the buffer, out the
\* bytes of the file behind it
BufWriteAll(w, piece) ==
    LET f == IF Len(piece) > BufCap - Len(w.buf)
             THEN [buf |-> <<>>, out |-> w.out \o w.buf]
             ELSE w
    IN  IF Len(piece) >= BufCap
        THEN [buf |-> f.buf, out |-> f.out \o piece]
        ELSE [buf |-> f.buf \o piece, out |-> f.out]

\* writeln!(writer, "{}", line): the line, then "\n"
WriteLn(w, line) == BufWriteAll(BufWriteAll(w, line), Newline)

(***************************************************************************)
(* Section Locator.                                                        *)
(***************************************************************************)
\* lines.iter().position(|line| line.contains(marker)), 0-based or None
Position(ls, marker) ==
    IF \E i \in 1..Len(ls) : Contains(ls[i], marker)
    THEN (CHOOSE i \in 1..Len(ls) :
              /\ Contains(ls[i], marker)
              /\ \A j \in 1..(i - 1) : ~Contains(ls[j], marker)) - 1
    ELSE None

\* a range that never fails
SliceUnchecked(start, end) == TRUE

\* &lines[start..end] panics when start > end
SliceInBounds(start, end) == start <= end

\* &lines[display_start..display_end]
Slice(ls, start, end) == SubSeq(ls, start + 1, end)

(***************************************************************************)
(* Block Parser.                                                           *)
(***************************************************************************)
\* current_config is <<>> (None) or <<config>> (Some)
RECURSIVE ParseLoop(_, _, _, _)
ParseLoop(ls, i, configs, current_config) ==
    IF i > Len(ls) THEN configs \o current_config
    ELSE LET line == ls[i] IN
         IF IsMatch(line)
         THEN ParseLoop(ls, i + 1, configs \o current_config,
                  <<[description |-> Trim(Captures(line)[1]),
                     status |-> Trim(Captures(line)[2]),
                     outputs |-> <<>>]>>)
         ELSE IF Len(current_config) > 0
         THEN LET trimmed_line == TrimStart(TrimStartMatches(line, "#"))
              IN  ParseLoop(ls, i + 1, configs,
                      IF Len(trimmed_line) > 0
                      THEN <<[current_config[1] EXCEPT
                                  !.outputs = Append(@, trimmed_line)]>>
                      ELSE current_config)
         ELSE ParseLoop(ls, i + 1, configs, current_config)

parse_configs(ls) == ParseLoop(ls, 1, <<>>, <<>>)

(***************************************************************************)
(* Selector.                                                               *)
(***************************************************************************)
\* get_user_selection, one iteration on the line read from stdin: the
\* process exits ("quit"), the loop returns index ("index"), or it prompts
\* again ("invalid")
Selection(line, total_configs) ==
    LET trimmed == Trim(line)
        choice == ParseUsize(trimmed)
    IN  IF EqIgnoreAsciiCase(trimmed, Quit)
        THEN [kind |-> "quit", index |-> None]
        ELSE IF choice # None /\ choice > 0 /\ choice <= total_configs
        THEN [kind |-> "index", index |-> choice - 1]
        ELSE [kind |-> "invalid", index |-> None]

(***************************************************************************)
(* Toggle and Re-serializer.                                               *)
(***************************************************************************)
\* a toggle that enables the selected record and leaves the others alone
SetStatusSelectedOnly(config, i, selected) ==
    IF i = selected THEN [config EXCEPT !.status = Enabled] ELSE config

\* body of the loop over updated_display_configs, i 0-based
SetStatus(config, i, selected) ==
    IF i = selected
    THEN [config EXCEPT !.status = Enabled]
    ELSE [config EXCEPT !.status = Disabled]

UpdateConfigs(configs, selected) ==
    [k \in 1..Len(configs) |-> SetStatus(configs[k], k - 1, selected)]

\* format!("# Description = {}, Status = {}", description, status)
HeaderLine(config) ==
    HeaderPrefix \o config.description \o StatusInfix \o config.status

\* line_to_write for one output line of a record with the given status
LineToWrite(status, output_line) ==
    IF EqIgnoreAsciiCase(status, Enabled) THEN output_line
    ELSE IF StartsWith(output_line, CommentPrefix) THEN output_line
    ELSE IF StartsWith(output_line, <<"#">>)
    THEN CommentPrefix \o TrimStart(TrimStartMatches(output_line, "#"))
    ELSE CommentPrefix \o output_line

SerializeConfig(config) ==
    <<HeaderLine(config)>> \o
        [j \in 1..Len(config.outputs) |->
            LineToWrite(config.status, config.outputs[j])]

RECURSIVE SerializeConfigs(_)
SerializeConfigs(configs) ==
    IF configs = <<>> THEN <<>>
    ELSE SerializeConfig(Head(configs)) \o SerializeConfigs(Tail(configs))

(***************************************************************************)
(* Splicer.                                                                *)
(***************************************************************************)
\* a splice that copies the lines before the start marker only
SpliceWithoutStart(ls, start, end, section) ==
    SubSeq(ls, 1, start) \o section \o SubSeq(ls, end + 1, Len(ls))

\* lines[..=display_start] + new_display_section + lines[display_end..]
Splice(ls, start, end, section) ==
    SubSeq(ls, 1, start + 1) \o section \o
        (IF end < Len(ls) THEN SubSeq(ls, end + 1, Len(ls)) ELSE <<>>)

(***************************************************************************)
(* The config files a run may start from.                                  *)
(***************************************************************************)
LinePre == <<"s","e","t"," ","$","m">>
LinePost == <<"b","a","r"," ","{">>
LineStart == CommentPrefix \o DisplayStartMarker
LineEnd == CommentPrefix \o DisplayEndMarker
\* a start marker line that has the shape of a record header
LineStartHdr == HeaderPrefix \o DisplayStartMarker \o StatusInfix \o Disabled
\* both markers on one line
LineBoth == CommentPrefix \o DisplayStartMarker \o <<" ">> \o DisplayEndMarker
LineHdrA == HeaderPrefix \o <<"A">> \o StatusInfix \o Enabled
LineHdrB ==
    HeaderPrefix \o <<"B"," ">> \o StatusInfix
        \o <<"e","n","a","b","l","e","d",","," ","x">>
LineHdrBlank == HeaderPrefix \o <<" ">> \o StatusInfix \o Disabled
LineOutBare == <<"o","u","t","p","u","t"," ","X">>
LineOutHashes == <<"#","#"," "," ","o","u","t","p","u","t"," ","Y">>
LineOutNested == <<"#"," ","#","z">>
LineOutDesc ==
    <<"D","e","s","c","r","i","p","t","i","o","n"," ","="," ","c">>
        \o StatusInfix \o <<"d">>
LineHashOnly == <<"#">>

SectionPool ==
    {LineHdrA, LineHdrB, LineHdrBlank, LineOutBare, LineOutHashes,
     LineOutNested, LineOutDesc, LineHashOnly}

Sections ==
    UNION {[1..n -> SectionPool] : n \in 0..MaxSectionLines}

Files ==
    {<<LinePre, st>> \o sec \o <<LineEnd, LinePost>> :
        st \in {LineStart, LineStartHdr}, sec \in Sections}
    \cup {<<>>,
          <<LinePre, LineHdrA, LineOutBare, LineEnd>>,
          <<LineStart, LineHdrA, LineOutBare>>,
          <<LineEnd, LineHdrA, LineStart>>,
          <<LinePre, LineBoth, LineHdrA, LineEnd>>}

\* what the user may type at the prompt (read_line adds the newline)
Inputs ==
    {<<"q">>, <<"Q"," ">>, <<>>, <<"x">>, <<"0">>, <<"1">>, <<" ","2">>,
     <<"+","3">>, <<"4">>, <<"5">>, <<"1","0">>}

(***************************************************************************)
(* State after process start: nothing read, the config file on disk.       *)
(***************************************************************************)
Init ==
    /\ \E f \in Files :
           /\ old_content = FileOf(f)
           /\ fs_config = FileOf(f)
    /\ pc = "open"
    /\ exit_code = Running
    /\ io_error = "none"
    /\ temp_exists = FALSE
    /\ fs_temp = <<>>
    /\ lines = <<>>
    /\ display_start = None
    /\ display_end = None
    /\ display_configs = <<>>
    /\ input = <<>>
    /\ attempts = 0
    /\ selected_index = None
    /\ updated_display_configs = <<>>
    /\ new_display_section = <<>>
    /\ new_lines = <<>>
    /\ writer = <<>>
    /\ written = 0
    /\ reload_spawned = FALSE
    /\ sway_read = FALSE
    /\ sway_config = <<>>

fsVars == <<old_content, fs_config, temp_exists, fs_temp>>
parseVars == <<lines, display_start, display_end, display_configs>>
promptVars == <<input, attempts, selected_index>>
rewriteVars == <<updated_display_configs, new_display_section, new_lines>>
writerVars == <<writer, written>>
swayVars == <<reload_spawned, sway_read, sway_config>>

\* process::exit(code), a panic (101) or the return of main
Exit(code) ==
    /\ pc' = "exit"
    /\ exit_code' = code

\* File::open(&config_path)
OpenConfig ==
    /\ pc = "open"
    /\ pc' = "read"
    /\ UNCHANGED <<exit_code, io_error, fsVars, parseVars, promptVars,
                   rewriteVars, writerVars, swayVars>>

\* File::open fails: expect() panics
OpenConfigFail ==
    /\ pc = "open"
    /\ io_error' = "open"
    /\ Exit(101)
    /\ UNCHANGED <<fsVars, parseVars, promptVars, rewriteVars, writerVars,
                   swayVars>>

\* reader.lines().filter_map(Result::ok).collect(): a line whose read fails
\* is left out
ReadConfig ==
    /\ pc = "read"
    /\ \E bad \in 0..MaxReadFaultLine :
           /\ bad <= Len(ReadLines(fs_config))
           /\ lines' = DropFailed(ReadLines(fs_config), bad)
           /\ io_error' = IF bad = 0 THEN io_error ELSE "read"
    /\ pc' = "find_start"
    /\ UNCHANGED <<exit_code, fsVars, display_start, display_end,
                   display_configs, promptVars, rewriteVars, writerVars,
                   swayVars>>

\* display_start, or exit(1) when no line has the marker
LocateStart ==
    /\ pc = "find_start"
    /\ IF Position(lines, DisplayStartMarker) = None
       THEN /\ Exit(1)
            /\ UNCHANGED display_start
       ELSE /\ display_start' = Position(lines, DisplayStartMarker)
            /\ pc' = "find_end"
            /\ UNCHANGED exit_code
    /\ UNCHANGED <<io_error, fsVars, lines, display_end, display_configs,
                   promptVars, rewriteVars, writerVars, swayVars>>

\* display_end, or exit(1) when no line has the marker
LocateEnd ==
    /\ pc = "find_end"
    /\ IF Position(lines, DisplayEndMarker) = None
       THEN /\ Exit(1)
            /\ UNCHANGED display_end
       ELSE /\ display_end' = Position(lines, DisplayEndMarker)
            /\ pc' = "slice"
            /\ UNCHANGED exit_code
    /\ UNCHANGED <<io_error, fsVars, lines, display_start, display_configs,
                   promptVars, rewriteVars, writerVars, swayVars>>

\* display_section = &lines[display_start..display_end] (a panic when the
\* range is inverted), display_configs = parse_configs(display_section), the
\* listing, and the first prompt
ParseSection ==
    /\ pc = "slice"
    /\ IF SliceInBounds(display_start, display_end)
       THEN /\ display_configs' =
                   parse_configs(Slice(lines, display_start, display_end))
            /\ pc' = "prompt"
            /\ UNCHANGED exit_code
       ELSE /\ Exit(101)
            /\ UNCHANGED display_configs
    /\ UNCHANGED <<io_error, fsVars, lines, display_start, display_end,
                   promptVars, rewriteVars, writerVars, swayVars>>

\* get_user_selection: one read_line and what the loop does with it; the
\* count of invalid inputs is local to the loop and is gone when it returns
GetUserSelection ==
    /\ pc = "prompt"
    /\ \E typed \in Inputs :
         LET line == typed \o Newline
             sel == Selection(line, Len(display_configs))
         IN  /\ input' = line
             /\ CASE sel.kind = "quit" ->
                       /\ Exit(0)
                       /\ UNCHANGED <<attempts, selected_index>>
                  [] sel.kind = "index" ->
                       /\ selected_index' = sel.index
                       /\ attempts' = 0
                       /\ pc' = "toggle"
                       /\ UNCHANGED exit_code
                  [] OTHER ->
                       /\ attempts < MaxAttempts
                       /\ attempts' = attempts + 1
                       /\ UNCHANGED <<pc, exit_code, selected_index>>
    /\ UNCHANGED <<io_error, fsVars, parseVars, rewriteVars, writerVars,
                   swayVars>>

\* updated_display_configs: the selected record Enabled, the others Disabled
Toggle ==
    /\ pc = "toggle"
    /\ updated_display_configs' = UpdateConfigs(display_configs, selected_index)
    /\ pc' = "serialize"
    /\ UNCHANGED <<exit_code, io_error, fsVars, parseVars, promptVars,
                   new_display_section, new_lines, writerVars, swayVars>>

\* new_display_section
Serialize ==
    /\ pc = "serialize"
    /\ new_display_section' = SerializeConfigs(updated_display_configs)
    /\ pc' = "splice"
    /\ UNCHANGED <<exit_code, io_error, fsVars, parseVars, promptVars,
                   updated_display_configs, new_lines, writerVars, swayVars>>

\* new_lines
SpliceLines ==
    /\ pc = "splice"
    /\ new_lines' =
           Splice(lines, display_start, display_end, new_display_section)
    /\ pc' = "open_temp"
    /\ UNCHANGED <<exit_code, io_error, fsVars, parseVars, promptVars,
                   updated_display_configs, new_display_section, writerVars,
                   swayVars>>

\* OpenOptions::new().write(true).create(true).truncate(true).open(temp_path)
\* and BufWriter::new(temp_file)
OpenTemp ==
    /\ pc = "open_temp"
    /\ temp_exists' = TRUE
    /\ fs_temp' = <<>>
    /\ writer' = <<>>
    /\ written' = 0
    /\ pc' = IF Len(new_lines) = 0 THEN "rename" ELSE "write"
    /\ UNCHANGED <<exit_code, io_error, old_content, fs_config, parseVars,
                   promptVars, rewriteVars, swayVars>>

\* the open fails: expect() panics
OpenTempFail ==
    /\ pc = "open_temp"
    /\ io_error' = "temp_open"
    /\ Exit(101)
    /\ UNCHANGED <<fsVars, parseVars, promptVars, rewriteVars, writerVars,
                   swayVars>>

\* one iteration of the write loop: writeln!(writer, "{}", line)?
WriteLine ==
    /\ pc = "write"
    /\ written < Len(new_lines)
    /\ LET w == WriteLn([buf |-> writer, out |-> fs_temp],
                        new_lines[written + 1])
       IN  /\ writer' = w.buf
           /\ fs_temp' = w.out
    /\ written' = written + 1
    /\ pc' = IF written + 1 = Len(new_lines) THEN "rename" ELSE "write"
    /\ UNCHANGED <<exit_code, io_error, old_content, fs_config, temp_exists,
                   parseVars, promptVars, rewriteVars, swayVars>>

\* a write to the temporary file fails: `?` returns the error from main, the
\* writer is dropped and its flush may or may not get the buffer out
WriteLineFail ==
    /\ pc = "write"
    /\ written < Len(new_lines)
    /\ WriteLn([buf |-> writer, out |-> fs_temp],
               new_lines[written + 1]).out # fs_temp
    /\ io_error' = "write"
    /\ fs_temp' \in {fs_temp, fs_temp \o writer}
    /\ Exit(1)
    /\ UNCHANGED <<old_content, fs_config, temp_exists, parseVars, promptVars,
                   rewriteVars, writerVars, swayVars>>

\* fs::rename(temp_path, &config_path); the writer is still alive and its
\* file is now the one at config_path
Rename ==
    /\ pc = "rename"
    /\ fs_config' = fs_temp
    /\ temp_exists' = FALSE
    /\ fs_temp' = <<>>
    /\ pc' = "reload"
    /\ UNCHANGED <<exit_code, io_error, old_content, parseVars, promptVars,
                   rewriteVars, writerVars, swayVars>>

\* the rename fails: expect() panics, unwinding drops the writer, which
\* flushes into the temporary file
RenameFail ==
    /\ pc = "rename"
    /\ io_error' = "rename"
    /\ fs_temp' = fs_temp \o writer
    /\ writer' = <<>>
    /\ Exit(101)
    /\ UNCHANGED <<old_content, fs_config, temp_exists, parseVars, promptVars,
                   rewriteVars, written, swayVars>>

\* Command::new("swaymsg").arg("reload").spawn() is Ok
SpawnReload ==
    /\ pc = "reload"
    /\ reload_spawned' = TRUE
    /\ pc' = "return"
    /\ UNCHANGED <<exit_code, io_error, fsVars, parseVars, promptVars,
                   rewriteVars, writerVars, sway_read, sway_config>>

\* spawn() is Err: a message, and main goes on
SpawnReloadFail ==
    /\ pc = "reload"
    /\ pc' = "return"
    /\ UNCHANGED <<exit_code, io_error, fsVars, parseVars, promptVars,
                   rewriteVars, writerVars, swayVars>>

\* Ok(()): the locals of main are dropped, the drop of the writer flushes
\* its buffer into the file it holds, which is the renamed one
ReturnOk ==
    /\ pc = "return"
    /\ fs_config' = fs_config \o writer
    /\ writer' = <<>>
    /\ Exit(0)
    /\ UNCHANGED <<io_error, old_content, temp_exists, fs_temp, parseVars,
                   promptVars, rewriteVars, written, swayVars>>

\* the flush in the drop fails: drop ignores the error
ReturnFlushFail ==
    /\ pc = "return"
    /\ writer # <<>>
    /\ io_error' = "flush"
    /\ Exit(0)
    /\ UNCHANGED <<fsVars, parseVars, promptVars, rewriteVars, writerVars,
                   swayVars>>

\* the spawned swaymsg makes sway read the config path, at any time after
\* the spawn
SwayReload ==
    /\ reload_spawned
    /\ ~sway_read
    /\ sway_read' = TRUE
    /\ sway_config' = fs_config
    /\ UNCHANGED <<pc, exit_code, io_error, fsVars, parseVars, promptVars,
                   rewriteVars, writerVars, reload_spawned>>

Next ==
    \/ OpenConfig
    \/ OpenConfigFail
    \/ ReadConfig
    \/ LocateStart
    \/ LocateEnd
    \/ ParseSection
    \/ GetUserSelection
    \/ Toggle
    \/ Serialize
    \/ SpliceLines
    \/ OpenTemp
    \/ OpenTempFail
    \/ WriteLine
    \/ WriteLineFail
    \/ Rename
    \/ RenameFail
    \/ SpawnReload
    \/ SpawnReloadFail
    \/ ReturnOk
    \/ ReturnFlushFail
    \/ SwayReload

Spec == Init /\ [][Next]_vars

(***************************************************************************)
(* Properties.                                                             *)
(***************************************************************************)
\* the selection returned and the toggle loop has run
Toggled == selected_index # None /\ pc # "toggle"

\* new_display_section has been built
Serialized == Toggled /\ pc # "serialize"

\* new_lines has been built
Spliced == Serialized /\ pc # "splice"

\* display_configs has been parsed
Parsed == display_end # None /\ pc # "slice" /\ display_start <= display_end

\* main returned Ok(()) after the write loop, the rename and the drop of the
\* writer, and no write to the file failed
WroteFile ==
    /\ pc = "exit"
    /\ exit_code = 0
    /\ selected_index # None
    /\ io_error \in {"none", "read"}

\* no I/O operation of the run has failed and the start marker line does not
\* have the shape of a record header
PlainRun ==
    /\ io_error = "none"
    /\ display_start # None => ~IsMatch(lines[display_start + 1])

\* C1: in a run without I/O failure, whenever the rename has replaced the
\* config path nothing is pending in the write buffer, and in every state the
\* config path holds the complete old content or the complete new content.
C1_AtomicReplace ==
    PlainRun =>
        /\ pc \in {"reload", "return"} => writer = <<>>
        /\ \/ fs_config = old_content
           \/ Spliced /\ fs_config = FileOf(new_lines)

\* C2: in a run without I/O failure, from the moment the reload is spawned
\* the config path holds the complete new content, and so does whatever the
\* reload reads from it.
C2_ReloadAfterWrite ==
    PlainRun =>
        /\ reload_spawned => fs_config = FileOf(new_lines)
        /\ sway_read => sway_config = FileOf(new_lines)

\* C3: an I/O failure leaves the config path with its original content and
\* ends the run with a non-zero exit status; the config path changes only in
\* a run without any I/O failure.
C3_FailureLeavesOriginal ==
    /\ io_error # "none" =>
           /\ fs_config = old_content
           /\ pc = "exit" => exit_code # 0
    /\ fs_config # old_content => io_error = "none"

\* C4: after the toggle on n >= 1 records with selected index i in [0, n),
\* exactly one record is Enabled, it is the one at index i, and every other
\* record is Disabled, whatever the statuses read from the file were.
C4_SingleEnabled ==
    Toggled =>
        /\ Len(display_configs) >= 1
        /\ selected_index \in 0..(Len(display_configs) - 1)
        /\ Len(updated_display_configs) = Len(display_configs)
        /\ \A k \in 1..Len(updated_display_configs) :
               updated_display_configs[k].status =
                   IF k - 1 = selected_index THEN Enabled ELSE Disabled
        /\ Cardinality({k \in 1..Len(updated_display_configs) :
               updated_display_configs[k].status = Enabled}) = 1

\* the toggle ran on records of which two were enabled and one had a status
\* that is neither Enabled nor Disabled
C4_Witness ==
    /\ Toggled
    /\ Cardinality({k \in 1..Len(display_configs) :
           EqIgnoreAsciiCase(display_configs[k].status, Enabled)}) >= 2
    /\ \E k \in 1..Len(display_configs) :
           display_configs[k].status \notin {Enabled, Disabled}

\* C5: parsing the section the re-serializer wrote yields the records it was
\* written from: same number, same description, status and outputs, in order.
C5_RoundTrip ==
    Serialized => parse_configs(new_display_section) = updated_display_configs

\* w is lines[0..=start] + new_display_section + lines[end..], line by line
Frame(w) ==
    LET n == Len(lines)
        m == Len(new_display_section)
        head == display_start + 1
    IN  /\ display_start < display_end
        /\ Len(w) = head + m + (n - display_end)
        /\ \A k \in 1..head : w[k] = lines[k]
        /\ \A j \in 1..m : w[head + j] = new_display_section[j]
        /\ \A k \in (display_end + 1)..n :
               w[head + m + (k - display_end)] = lines[k]

\* C6: the line sequence a run writes is the original lines up to and
\* including the start marker, the new section, and the original lines from
\* the end marker on, each once, unchanged and in order.
C6_SpliceFrame ==
    /\ Spliced => Frame(new_lines)
    /\ WroteFile =>
           /\ Frame(ReadLines(fs_config))
           /\ fs_config = FileOf(new_lines)

\* a run wrote a file that has lines before the start marker and after the
\* end marker and whose section has a record
C6_Witness ==
    /\ WroteFile
    /\ io_error = "none"
    /\ display_start > 0
    /\ display_end < Len(lines) - 1
    /\ Len(new_display_section) > 1
    /\ fs_config # old_content

\* the last line read at the prompt is q or Q, whitespace aside
TypedQuit == Trim(input) \in {<<"q">>, <<"Q">>}

\* C7: once q (any case) is read at the prompt, after any number of invalid
\* inputs, the run has ended with exit status 0, the config file is as it
\* was, no temporary file exists and no reload was spawned.
C7_QuitNoEffect ==
    TypedQuit =>
        /\ pc = "exit"
        /\ exit_code = 0
        /\ selected_index = None
        /\ fs_config = old_content
        /\ ~temp_exists
        /\ fs_temp = <<>>
        /\ writer = <<>>
        /\ ~reload_spawned

\* Q was typed after an invalid input
C7_Witness ==
    /\ Trim(input) = <<"Q">>
    /\ attempts > 0
    /\ pc = "exit"

\* no line of ls contains the marker
NoLineHas(ls, marker) == \A i \in 1..Len(ls) : ~Contains(ls[i], marker)

\* a line with the end marker comes before every line with the start marker
EndBeforeStart(ls) ==
    \E e \in 1..Len(ls) :
        /\ Contains(ls[e], DisplayEndMarker)
        /\ \A j \in 1..e : ~Contains(ls[j], DisplayStartMarker)

BadMarkers(ls) ==
    \/ NoLineHas(ls, DisplayStartMarker)
    \/ NoLineHas(ls, DisplayEndMarker)
    \/ EndBeforeStart(ls)

\* C8: when a marker is missing or the end marker comes first, the run does
\* not get to the prompt, exits with a non-zero status, and writes, renames
\* and reloads nothing.
C8_BadMarkersFatal ==
    (pc \notin {"open", "read"} /\ BadMarkers(lines)) =>
        /\ pc \in {"find_start", "find_end", "slice", "exit"}
        /\ pc = "exit" => exit_code \in {1, 101}
        /\ input = <<>>
        /\ fs_config = old_content
        /\ ~temp_exists
        /\ ~reload_spawned

\* the run ended at the slice of a file whose end marker comes first
C8_Witness ==
    /\ pc = "exit"
    /\ exit_code = 101
    /\ io_error = "none"
    /\ ~NoLineHas(lines, DisplayStartMarker)
    /\ EndBeforeStart(lines)

\* (1-based) position in the section of the header line of record k
RECURSIVE HeaderIndex(_, _)
HeaderIndex(configs, k) ==
    IF k = 1 THEN 1
    ELSE HeaderIndex(configs, k - 1) + 1 + Len(configs[k - 1].outputs)

\* C9: every output line of a Disabled record is serialized as "# " and the
\* directive text, every output line of the Enabled record as the directive
\* text, which has no '#' prefix (in a run whose records all come from the
\* lines between the markers).
C9_CommentNormalization ==
    (Serialized /\ PlainRun) =>
        \A k \in 1..Len(updated_display_configs) :
            LET config == updated_display_configs[k]
                h == HeaderIndex(updated_display_configs, k)
            IN  \A j \in 1..Len(config.outputs) :
                    IF config.status = Enabled
                    THEN /\ new_display_section[h + j] = config.outputs[j]
                         /\ ~StartsWith(new_display_section[h + j], <<"#">>)
                    ELSE new_display_section[h + j] =
                             CommentPrefix \o config.outputs[j]

\* C10: the records are those of the lines strictly between the marker
\* lines, and no line of the re-serialized section is a copy of a marker line.
C10_MarkersNotParsed ==
    Parsed =>
        /\ display_configs =
               parse_configs(SubSeq(lines, display_start + 2, display_end))
        /\ \A j \in 1..Len(new_display_section) :
               /\ new_display_section[j] # lines[display_start + 1]
               /\ new_display_section[j] # lines[display_end + 1]

====
